---- MODULE Spec2Model ----
(***************************************************************************)
(* Print estimator: the specification validator (app/services/validator.py)*)
(* and the rule-based pricing engine (app/services/pricing.py), with the   *)
(* cached pricing configuration they share.                                *)
(*                                                                         *)
(* Three specifications: Spec, one caller of the two services; IntakeSpec, *)
(* one request through the intake handler (app/routers/intake.py);         *)
(* ConcSpec, two invocations interleaved over one configuration object.    *)
(*                                                                         *)
(* Money is kept exactly: an amount is w + f/FracDen cents, the rates of   *)
(* the configuration are whole cents per unit, and multipliers, discount   *)
(* fractions, margin and tax are ratios <<n, m>>.  Python computes the     *)
(* same quantities in binary floating point and rounds to two decimals     *)
(* only when the estimate is built (pricing.py:496-517); round2 below is   *)
(* that rounding, half to even, on the exact value.  On an exact half cent *)
(* the binary representation can tip Python's round() to the other cent:   *)
(* the rounded fields of an estimate are exact up to that cent, and the    *)
(* unrounded locals are what the properties below compute with.            *)
(*                                                                         *)
(* Optional[T] is a sequence of length <= 1: None is <<>>, a value v is    *)
(* <<v>>.                                                                  *)
(***************************************************************************)
EXTENDS Integers, Sequences, FiniteSets, TLC

None == <<>>
Some(v) == <<v>>
Val(o) == o[1]
IsNone(o) == o = <<>>

\* Python truthiness of an Optional[str]: None and "" are falsy.
TruthyStr(o) == o # <<>> /\ o[1] # ""
\* Python truthiness of an Optional[int]: None and 0 are falsy.
TruthyInt(o) == o # <<>> /\ o[1] # 0
\* Python truthiness of an Optional[bool].
TruthyBool(o) == o # <<>> /\ o[1]

(***************************************************************************)
(* Exact arithmetic on amounts and ratios.                                 *)
(***************************************************************************)
FracDen == (2 ^ 10) * (5 ^ 6)

Cents(c) == [w |-> c, f |-> 0]
Zero == Cents(0)

AddA(a, b) ==
    LET s == a.f + b.f
    IN  [w |-> a.w + b.w + (s \div FracDen), f |-> s % FracDen]

NegA(a) ==
    IF a.f = 0 THEN [w |-> 0 - a.w, f |-> 0]
    ELSE [w |-> 0 - a.w - 1, f |-> FracDen - a.f]

LtA(a, b) == a.w < b.w \/ (a.w = b.w /\ a.f < b.f)
LeA(a, b) == ~LtA(b, a)
IsZeroA(a) == a.w = 0 /\ a.f = 0

\* a / m for a natural m > 0
DivBy(a, m) ==
    LET num == (a.w % m) * FracDen + a.f
    IN  [w |-> a.w \div m, f |-> num \div m]

\* a * n for a natural n
MulBy(a, n) ==
    LET p == a.f * n
    IN  [w |-> a.w * n + (p \div FracDen), f |-> p % FracDen]

RECURSIVE GCD(_, _)
GCD(x, y) == IF y = 0 THEN x ELSE GCD(y, x % y)

\* a ratio <<n, m>> in lowest terms, m > 0, n >= 0
ReduceR(r) ==
    LET g == GCD(r[1], r[2])
    IN  IF g = 0 THEN r ELSE <<r[1] \div g, r[2] \div g>>

One == <<1, 1>>
MulRR(r, s) == ReduceR(<<r[1] * s[1], r[2] * s[2]>>)
\* r - 1, for a multiplier r >= 1
MinusOne(r) == ReduceR(<<r[1] - r[2], r[2]>>)
\* int(r * 100): the whole percent a note names
Percent(r) == (r[1] * 100) \div r[2]

\* a * (n / m)
MulR(a, r) == LET q == ReduceR(r) IN MulBy(DivBy(a, q[2]), q[1])

\* round(x, 2) of an amount in cents: to the nearest cent, half to even
round2(a) ==
    IF 2 * a.f < FracDen THEN a.w
    ELSE IF 2 * a.f > FracDen THEN a.w + 1
    ELSE IF a.w % 2 = 0 THEN a.w ELSE a.w + 1

(***************************************************************************)
(* Pricing configuration.  Rates and prices are in cents.                  *)
(***************************************************************************)
Get(d, k, default) == IF k \in DOMAIN d THEN d[k] ELSE default

get_default_pricing_config ==
    [ products |->
        [ business_cards |-> [material_per_unit |-> 2, print_per_unit |-> 4,
                              finishing_per_unit |-> 2, minimum_quantity |-> 100,
                              minimum_price |-> 2999],
          flyers         |-> [material_per_unit |-> 3, print_per_unit |-> 8,
                              finishing_per_unit |-> 2, minimum_quantity |-> 50,
                              minimum_price |-> 3500],
          brochures      |-> [material_per_unit |-> 8, print_per_unit |-> 15,
                              finishing_per_unit |-> 5, minimum_quantity |-> 50,
                              minimum_price |-> 7500],
          posters        |-> [material_per_unit |-> 25, print_per_unit |-> 50,
                              finishing_per_unit |-> 10, minimum_quantity |-> 1,
                              minimum_price |-> 1500],
          postcards      |-> [material_per_unit |-> 3, print_per_unit |-> 5,
                              finishing_per_unit |-> 2, minimum_quantity |-> 100,
                              minimum_price |-> 3000],
          default        |-> [material_per_unit |-> 5, print_per_unit |-> 10,
                              finishing_per_unit |-> 3, minimum_quantity |-> 1,
                              minimum_price |-> 2500] ],
      print_method |->
        [ digital |-> [setup_cost |-> 1500, cost_multiplier |-> <<1, 1>>],
          offset  |-> [setup_cost |-> 15000, cost_multiplier |-> <<3, 5>>],
          threshold_quantity |-> 500 ],
      options |->
        [ rounded_corners |-> [price |-> 1500, type |-> "flat"],
          foil_stamping   |-> [price |-> 8, type |-> "per_unit"],
          embossing       |-> [price |-> 10, type |-> "per_unit"],
          spot_uv         |-> [price |-> 2500, type |-> "flat"],
          die_cut         |-> [price |-> 7500, type |-> "flat"],
          lamination      |-> [price |-> 3, type |-> "per_unit"],
          uv_coating      |-> [price |-> 2, type |-> "per_unit"],
          hole_punch      |-> [price |-> 1000, type |-> "flat"],
          scoring         |-> [price |-> 1, type |-> "per_unit"],
          perforation     |-> [price |-> 2, type |-> "per_unit"] ],
      modifiers |->
        [ double_sided |-> <<8, 5>>,
          full_color   |-> <<1, 1>>,
          black_white  |-> <<1, 2>>,
          spot_color   |-> <<3, 4>>,
          gloss_finish |-> <<11, 10>>,
          matte_finish |-> <<1, 1>>,
          satin_finish |-> <<21, 20>>,
          uncoated     |-> <<9, 10>> ],
      quantity_discounts |->
        << [min_quantity |-> 250, discount |-> <<1, 20>>],
           [min_quantity |-> 500, discount |-> <<1, 10>>],
           [min_quantity |-> 1000, discount |-> <<3, 20>>],
           [min_quantity |-> 5000, discount |-> <<1, 5>>],
           [min_quantity |-> 10000, discount |-> <<1, 4>>] >>,
      rush_pricing |->
        ("same_day" :> <<2, 1>>) @@ ("next_day" :> <<3, 2>>) @@
        ("2_day" :> <<5, 4>>) @@ ("standard" :> <<1, 1>>),
      margin_percent |-> <<3, 10>>,
      tax_rate |-> <<0, 1>> ]

\* A well-formed data/pricing.json that differs from the embedded defaults:
\* discount tiers out of order, a lower method threshold, a tax, and a
\* modifier table that has both the raw and the "_finish" key of a finish.
AltConfig ==
    [ products |->
        [ business_cards |-> [material_per_unit |-> 3, print_per_unit |-> 5,
                              finishing_per_unit |-> 1, minimum_quantity |-> 100,
                              minimum_price |-> 2000],
          default        |-> [material_per_unit |-> 4, print_per_unit |-> 9,
                              finishing_per_unit |-> 2, minimum_quantity |-> 1,
                              minimum_price |-> 1800] ],
      print_method |->
        [ digital |-> [setup_cost |-> 2000, cost_multiplier |-> <<1, 1>>],
          offset  |-> [setup_cost |-> 10000, cost_multiplier |-> <<1, 2>>],
          threshold_quantity |-> 250 ],
      options |->
        [ rounded_corners |-> [price |-> 1000, type |-> "flat"],
          foil_stamping   |-> [price |-> 5, type |-> "per_unit"],
          embossing       |-> [price |-> 12, type |-> "per_unit"] ],
      modifiers |->
        [ double_sided |-> <<3, 2>>,
          black_white  |-> <<1, 2>>,
          gloss        |-> <<6, 5>>,
          gloss_finish |-> <<11, 10>>,
          uncoated     |-> <<9, 10>> ],
      quantity_discounts |->
        << [min_quantity |-> 1000, discount |-> <<3, 20>>],
           [min_quantity |-> 100, discount |-> <<1, 20>>],
           [min_quantity |-> 500, discount |-> <<1, 10>>] >>,
      rush_pricing |->
        ("same_day" :> <<2, 1>>) @@ ("next_day" :> <<3, 2>>) @@
        ("2_day" :> <<5, 4>>),
      margin_percent |-> <<1, 5>>,
      tax_rate |-> <<1, 10>> ]

(***************************************************************************)
(* Pricing engine.                                                         *)
(***************************************************************************)

\* determine_print_method: the method and the reason string (its contents)
\* determine_print_method with the threshold itself still digital
determine_print_method_inclusive(quantity, config) ==
    LET threshold == Get(Get(config, "print_method", <<>>), "threshold_quantity", 500)
    IN  IF quantity <= threshold
        THEN [method |-> "digital", quantity |-> quantity, threshold |-> threshold]
        ELSE [method |-> "offset", quantity |-> quantity, threshold |-> threshold]

determine_print_method(quantity, config) ==
    LET threshold == Get(Get(config, "print_method", <<>>), "threshold_quantity", 500)
    IN  IF quantity < threshold
        THEN [method |-> "digital", quantity |-> quantity, threshold |-> threshold]
        ELSE [method |-> "offset", quantity |-> quantity, threshold |-> threshold]

\* config["products"].get(product_type, config["products"]["default"])
ProductConfig(specs, config) ==
    LET product_type == IF TruthyStr(specs.product_type)
                        THEN Val(specs.product_type) ELSE "default"
    IN  Get(config.products, product_type, config.products["default"])

\* an absent quantity priced as no unit at all
Quantity_zero(specs) == IF TruthyInt(specs.quantity) THEN Val(specs.quantity) ELSE 0

\* specs.quantity or 1
Quantity(specs) == IF TruthyInt(specs.quantity) THEN Val(specs.quantity) ELSE 1

\* the method configuration read before the method is decided: always digital's
MethodConfig_digital(method, config) ==
    Get(Get(config, "print_method", <<>>), "digital", <<>>)

\* config.get("print_method", {}).get(print_method, {})
MethodConfig(method, config) == Get(Get(config, "print_method", <<>>), method, <<>>)

\* f"{finish}_finish" unless the name already ends with "_finish"
FinishKey(finish) ==
    CASE finish = "gloss" -> "gloss_finish"
      [] finish = "matte" -> "matte_finish"
      [] finish = "satin" -> "satin_finish"
      [] finish = "uncoated" -> "uncoated_finish"
      [] finish = "linen" -> "linen_finish"
      [] OTHER -> finish

\* the combined factor with the finish looked up under its raw name first
ModifierTotal_raw_first(specs, config) ==
    LET modifiers == Get(config, "modifiers", <<>>)
        m0 == One
        m1 == IF specs.sides = Some("double")
              THEN MulRR(m0, Get(modifiers, "double_sided", <<8, 5>>)) ELSE m0
        m2 == IF TruthyStr(specs.color_mode)
              THEN MulRR(m1, Get(modifiers, Val(specs.color_mode), One)) ELSE m1
        m3 == IF TruthyStr(specs.finish)
              THEN MulRR(m2, Get(modifiers, Val(specs.finish),
                                 Get(modifiers, FinishKey(Val(specs.finish)), One)))
              ELSE m2
    IN  m3

\* the combined factor of sides, color mode and finish
ModifierTotal(specs, config) ==
    LET modifiers == Get(config, "modifiers", <<>>)
        m0 == One
        m1 == IF specs.sides = Some("double")
              THEN MulRR(m0, Get(modifiers, "double_sided", <<8, 5>>)) ELSE m0
        m2 == IF TruthyStr(specs.color_mode)
              THEN MulRR(m1, Get(modifiers, Val(specs.color_mode), One)) ELSE m1
        m3 == IF TruthyStr(specs.finish)
              THEN MulRR(m2, Get(modifiers, FinishKey(Val(specs.finish)),
                                 Get(modifiers, Val(specs.finish), One)))
              ELSE m2
    IN  m3

\* every option charged per unit, whatever its type
OptionCost_per_unit(opt_config, quantity) == Cents(opt_config.price * quantity)

\* the cost of one option the configuration prices
OptionCost(opt_config, quantity) ==
    IF opt_config.type = "flat" THEN Cents(opt_config.price)
    ELSE Cents(opt_config.price * quantity)

\* option_costs: a dict keyed by option name (a repeated option is one key)
OptionCosts(specs, quantity, config) ==
    LET options_config == Get(config, "options", <<>>)
        priced == {specs.options[i] : i \in DOMAIN specs.options} \cap
                  {o \in DOMAIN options_config :
                     options_config[o].type \in {"flat", "per_unit"}}
    IN  [o \in priced |-> OptionCost(options_config[o], quantity)]

Note(kind, name, num) == [kind |-> kind, name |-> name, num |-> num]

RECURSIVE OptionNotes(_, _)
OptionNotes(options, options_config) ==
    IF options = <<>> THEN <<>>
    ELSE (IF Head(options) \in DOMAIN options_config THEN <<>>
          ELSE <<Note("unknown_option", Head(options), 0)>>)
         \o OptionNotes(Tail(options), options_config)

RECURSIVE SumValues(_, _)
SumValues(d, keys) ==
    IF keys = {} THEN Zero
    ELSE LET k == CHOOSE x \in keys : TRUE
         IN  AddA(d[k], SumValues(d, keys \ {k}))

\* sorted(tiers, key=min_quantity, reverse=True): stable, so tiers with equal
\* keys keep their order
RECURSIVE InsertTier(_, _)
InsertTier(t, sorted) ==
    IF sorted = <<>> THEN <<t>>
    ELSE IF Head(sorted).min_quantity < t.min_quantity THEN <<t>> \o sorted
    ELSE <<Head(sorted)>> \o InsertTier(t, Tail(sorted))

RECURSIVE SortedTiers(_)
SortedTiers(tiers) ==
    IF tiers = <<>> THEN <<>>
    ELSE InsertTier(tiers[Len(tiers)], SortedTiers(SubSeq(tiers, 1, Len(tiers) - 1)))

\* the first tier of the scan that the quantity reaches, None if there is none
RECURSIVE FirstTier(_, _)
FirstTier(quantity, sorted) ==
    IF sorted = <<>> THEN None
    ELSE IF quantity >= Head(sorted).min_quantity THEN Some(Head(sorted))
    ELSE FirstTier(quantity, Tail(sorted))

\* the scan run on the tiers in the order the configuration lists them
SelectTier_unsorted(quantity, config) ==
    FirstTier(quantity, Get(config, "quantity_discounts", <<>>))

SelectTier(quantity, config) ==
    FirstTier(quantity, SortedTiers(Get(config, "quantity_discounts", <<>>)))

\* whether a rush fee is charged
IsRush(specs) ==
    TruthyBool(specs.is_rush)
    \/ (specs.turnaround_days # None /\ Val(specs.turnaround_days) <= 2)

\* the rush class with next-day kept for the flag without a turnaround and no
\* surcharge for the other turnarounds
RushClass_no_fallback(specs, config) ==
    LET rush_config == Get(config, "rush_pricing", <<>>)
        t == specs.turnaround_days
    IN  IF t = Some(0) THEN [multiplier |-> Get(rush_config, "same_day", <<2, 1>>),
                             type |-> "Same-day"]
        ELSE IF t = Some(1) THEN [multiplier |-> Get(rush_config, "next_day", <<3, 2>>),
                                  type |-> "Next-day"]
        ELSE IF t = Some(2) THEN [multiplier |-> Get(rush_config, "2_day", <<5, 4>>),
                                  type |-> "2-day"]
        ELSE IF t = None
             THEN [multiplier |-> Get(rush_config, "next_day", <<3, 2>>), type |-> "Rush"]
        ELSE [multiplier |-> One, type |-> "Rush"]

\* the multiplier and the class of the rush fee
RushClass(specs, config) ==
    LET rush_config == Get(config, "rush_pricing", <<>>)
        t == specs.turnaround_days
    IN  IF t = Some(0) THEN [multiplier |-> Get(rush_config, "same_day", <<2, 1>>),
                             type |-> "Same-day"]
        ELSE IF t = Some(1) THEN [multiplier |-> Get(rush_config, "next_day", <<3, 2>>),
                                  type |-> "Next-day"]
        ELSE IF t = Some(2) THEN [multiplier |-> Get(rush_config, "2_day", <<5, 4>>),
                                  type |-> "2-day"]
        ELSE [multiplier |-> Get(rush_config, "next_day", <<3, 2>>), type |-> "Rush"]

\* the minimum price added to a subtotal below it
ApplyMinimum_added(subtotal, minimum_price) ==
    IF LtA(subtotal, Cents(minimum_price))
    THEN AddA(subtotal, Cents(minimum_price)) ELSE subtotal

\* the minimum price replaces a subtotal below it
ApplyMinimum(subtotal, minimum_price) ==
    IF LtA(subtotal, Cents(minimum_price)) THEN Cents(minimum_price) ELSE subtotal

\* STEP 2: the base costs, and STEP 3: the modifier applied to print and
\* finishing cost
MaterialCost(product_config, quantity) ==
    Cents(product_config.material_per_unit * quantity)

\* the multiplier taken as a surcharge, the way the rush multiplier is
PrintMultiplier_surcharge(method_config) ==
    MinusOne(Get(method_config, "cost_multiplier", One))

PrintMultiplier(method_config) == Get(method_config, "cost_multiplier", One)

PrintCost(product_config, quantity, print_multiplier, modifier_total) ==
    MulR(MulR(Cents(product_config.print_per_unit * quantity), print_multiplier),
         modifier_total)

SetupCost(method_config) == Cents(Get(method_config, "setup_cost", 1500))

FinishingCost(product_config, quantity, modifier_total) ==
    MulR(Cents(product_config.finishing_per_unit * quantity), modifier_total)

\* the combined factor applied to the material cost as well
BaseCosts_material_modified(specs, config) ==
    LET product_config == ProductConfig(specs, config)
        quantity == Quantity(specs)
        method == determine_print_method(quantity, config)
        method_config == MethodConfig(method.method, config)
        modifier_total == ModifierTotal(specs, config)
    IN  [ quantity |-> quantity,
          method |-> method,
          print_multiplier |-> PrintMultiplier(method_config),
          modifier_total |-> modifier_total,
          material_cost |-> MulR(MaterialCost(product_config, quantity),
                                 modifier_total),
          print_cost |-> PrintCost(product_config, quantity,
                                   PrintMultiplier(method_config), modifier_total),
          setup_cost |-> SetupCost(method_config),
          finishing_cost |-> FinishingCost(product_config, quantity, modifier_total) ]

BaseCosts(specs, config) ==
    LET product_config == ProductConfig(specs, config)
        quantity == Quantity(specs)
        method == determine_print_method(quantity, config)
        method_config == MethodConfig(method.method, config)
        modifier_total == ModifierTotal(specs, config)
    IN  [ quantity |-> quantity,
          method |-> method,
          print_multiplier |-> PrintMultiplier(method_config),
          modifier_total |-> modifier_total,
          material_cost |-> MaterialCost(product_config, quantity),
          print_cost |-> PrintCost(product_config, quantity,
                                   PrintMultiplier(method_config), modifier_total),
          setup_cost |-> SetupCost(method_config),
          finishing_cost |-> FinishingCost(product_config, quantity, modifier_total) ]

\* STEP 6: the discount of the tier found, a negative amount
QuantityDiscount(pre_discount_total, tier) ==
    IF tier = None THEN Zero ELSE NegA(MulR(pre_discount_total, Val(tier).discount))

\* STEP 7: the rush fee on the discounted base
RushFee(specs, config, discounted) ==
    IF IsRush(specs)
    THEN MulR(discounted, MinusOne(RushClass(specs, config).multiplier))
    ELSE Zero

\* STEP 8
MarginAmount(cost_subtotal, margin_percent) == MulR(cost_subtotal, margin_percent)

\* estimate_notes without the note of the minimum price
EstimateNotes_no_floor_note(specs, config, tier, unfloored, minimum_price) ==
    (IF specs.sides = Some("double") THEN <<Note("double_sided", "", 0)>> ELSE <<>>)
    \o OptionNotes(specs.options, Get(config, "options", <<>>))
    \o (IF tier = None THEN <<>>
        ELSE <<Note("volume_discount", "", Percent(Val(tier).discount))>>)
    \o (IF IsRush(specs)
        THEN <<Note("rush_fee", RushClass(specs, config).type,
                    Percent(MinusOne(RushClass(specs, config).multiplier)))>>
        ELSE <<>>)

\* the notes of an engine that records the substitution of the default product
EstimateNotes_substitution_noted(specs, config, tier, unfloored, minimum_price) ==
    (IF TruthyStr(specs.product_type)
        /\ Val(specs.product_type) \notin DOMAIN config.products
     THEN <<Note("default_product", Val(specs.product_type), 0)>> ELSE <<>>)
    \o (IF specs.sides = Some("double") THEN <<Note("double_sided", "", 0)>> ELSE <<>>)
    \o OptionNotes(specs.options, Get(config, "options", <<>>))
    \o (IF tier = None THEN <<>>
        ELSE <<Note("volume_discount", "", Percent(Val(tier).discount))>>)
    \o (IF IsRush(specs)
        THEN <<Note("rush_fee", RushClass(specs, config).type,
                    Percent(MinusOne(RushClass(specs, config).multiplier)))>>
        ELSE <<>>)
    \o (IF LtA(unfloored, Cents(minimum_price))
        THEN <<Note("minimum_price", "", minimum_price)>> ELSE <<>>)

\* estimate_notes, in the order the steps append them
EstimateNotes(specs, config, tier, unfloored, minimum_price) ==
    (IF specs.sides = Some("double") THEN <<Note("double_sided", "", 0)>> ELSE <<>>)
    \o OptionNotes(specs.options, Get(config, "options", <<>>))
    \o (IF tier = None THEN <<>>
        ELSE <<Note("volume_discount", "", Percent(Val(tier).discount))>>)
    \o (IF IsRush(specs)
        THEN <<Note("rush_fee", RushClass(specs, config).type,
                    Percent(MinusOne(RushClass(specs, config).multiplier)))>>
        ELSE <<>>)
    \o (IF LtA(unfloored, Cents(minimum_price))
        THEN <<Note("minimum_price", "", minimum_price)>> ELSE <<>>)

\* The steps below each take the locals computed so far and add their own.

\* STEP 4: Calculate Option Costs, STEP 5: Calculate Subtotal Before Discounts
CalculateOptionCosts(specs, config, l) ==
    LET option_costs == OptionCosts(specs, l.quantity, config)
    IN  [ option_costs |-> option_costs,
          pre_discount_total |->
              AddA(AddA(AddA(AddA(l.material_cost, l.print_cost), l.setup_cost),
                        l.finishing_cost),
                   SumValues(option_costs, DOMAIN option_costs)) ] @@ l

\* STEP 6: Apply Quantity Discount
ApplyQuantityDiscount(config, l) ==
    LET tier == SelectTier(l.quantity, config)
    IN  [ tier |-> tier,
          discount_rate |-> IF tier = None THEN <<0, 1>> ELSE Val(tier).discount,
          quantity_discount |-> QuantityDiscount(l.pre_discount_total, tier) ] @@ l

\* STEP 7: Apply Rush Fee
ApplyRushFee_list_price(specs, config, l) ==
    [ rush_fee |-> RushFee(specs, config, l.pre_discount_total) ] @@ l

ApplyRushFee(specs, config, l) ==
    [ rush_fee |->
          RushFee(specs, config, AddA(l.pre_discount_total, l.quantity_discount)) ] @@ l

\* STEP 8: Calculate Business Margin
CalculateCostSubtotal(config, l) ==
    [ margin_percent |-> Get(config, "margin_percent", <<3, 10>>),
      cost_subtotal |->
          AddA(AddA(l.pre_discount_total, l.quantity_discount), l.rush_fee) ] @@ l

\* the margin taken before the rush fee is added
CalculateMargin_before_rush(l) ==
    [ margin_amount |->
          MarginAmount(AddA(l.pre_discount_total, l.quantity_discount),
                       l.margin_percent) ] @@ l

CalculateMargin(l) ==
    [ margin_amount |-> MarginAmount(l.cost_subtotal, l.margin_percent) ] @@ l

\* STEP 9: Calculate Final Totals
\* a subtotal that leaves the margin out
CalculateSubtotal_without_margin(specs, config, l) ==
    [ unfloored |-> l.cost_subtotal,
      minimum_price |-> Get(ProductConfig(specs, config), "minimum_price", 2500) ] @@ l

CalculateSubtotal(specs, config, l) ==
    [ unfloored |-> AddA(l.cost_subtotal, l.margin_amount),
      minimum_price |-> Get(ProductConfig(specs, config), "minimum_price", 2500) ] @@ l

EnforceMinimum(specs, config, l) ==
    [ subtotal |-> ApplyMinimum(l.unfloored, l.minimum_price),
      estimate_notes |->
          EstimateNotes(specs, config, l.tier, l.unfloored, l.minimum_price) ] @@ l

CalculateTax(config, l) ==
    [ tax |-> MulR(l.subtotal, Get(config, "tax_rate", <<0, 1>>)) ] @@ l

CalculateTotal(l) == [ total |-> AddA(l.subtotal, l.tax) ] @@ l

\* the local variables of calculate_price when it reaches BUILD RESPONSE
PriceLocals(specs, config) ==
    CalculateTotal(
      CalculateTax(config,
        EnforceMinimum(specs, config,
          CalculateSubtotal(specs, config,
            CalculateMargin(
              CalculateCostSubtotal(config,
                ApplyRushFee(specs, config,
                  ApplyQuantityDiscount(config,
                    CalculateOptionCosts(specs, config,
                                         BaseCosts(specs, config))))))))))

\* PricingBreakdown(...) and PriceEstimate(...): the rounded fields; the
\* Field(ge=0) constraints of the two models raise a ValidationError
BuildEstimate(L) ==
    LET breakdown ==
            [ material_cost |-> round2(L.material_cost),
              print_cost |-> round2(L.print_cost),
              setup_cost |-> round2(L.setup_cost),
              finishing_cost |-> round2(L.finishing_cost),
              option_costs |-> [o \in DOMAIN L.option_costs |-> round2(L.option_costs[o])],
              rush_fee |-> round2(L.rush_fee),
              quantity_discount |-> round2(L.quantity_discount),
              margin_amount |-> round2(L.margin_amount),
              margin_percent |-> MulRR(L.margin_percent, <<100, 1>>) ]
        valid == /\ breakdown.material_cost >= 0
                 /\ breakdown.print_cost >= 0
                 /\ breakdown.setup_cost >= 0
                 /\ breakdown.finishing_cost >= 0
                 /\ breakdown.margin_amount >= 0
                 /\ round2(L.subtotal) >= 0
                 /\ round2(L.total) >= 0
    IN  IF valid
        THEN [ ok |-> TRUE,
               print_method |-> L.method.method,
               print_method_reason |-> L.method,
               breakdown |-> breakdown,
               subtotal |-> round2(L.subtotal),
               tax |-> round2(L.tax),
               total |-> round2(L.total),
               currency |-> "USD",
               estimate_notes |-> L.estimate_notes ]
        ELSE [ ok |-> FALSE, error |-> "ValidationError" ]

\* config["products"] and config["products"]["default"] are subscripted before
\* anything else: a configuration without them raises KeyError
ProductLookupRaises(config) ==
    \/ "products" \notin DOMAIN config
    \/ "default" \notin DOMAIN config.products

KeyError == [ok |-> FALSE, error |-> "KeyError"]

\* calculate_price(specs), given the configuration load_pricing_config returned
calculate_price(specs, config) ==
    IF ProductLookupRaises(config) THEN KeyError
    ELSE BuildEstimate(PriceLocals(specs, config))

(***************************************************************************)
(* Validator.  An error or warning is kept by its kind, the names it       *)
(* lists (a set: the text joins a Python set, in no fixed order) and the   *)
(* number it quotes.                                                       *)
(***************************************************************************)
VALID_PRODUCT_TYPES ==
    {"business_cards", "flyers", "posters", "brochures", "booklets", "stickers",
     "banners", "postcards", "letterhead", "envelopes", "folders", "notepads",
     "catalogs", "magazines"}

\* a whitelist that lacks an option the default configuration prices
VALID_OPTIONS_without_embossing ==
    {"rounded_corners", "foil_stamping", "spot_uv", "die_cut",
     "hole_punch", "scoring", "perforation", "lamination", "uv_coating"}

VALID_OPTIONS ==
    {"rounded_corners", "foil_stamping", "embossing", "spot_uv", "die_cut",
     "hole_punch", "scoring", "perforation", "lamination", "uv_coating"}

QUANTITY_LIMITS ==
    [ business_cards |-> [min |-> 100, max |-> 100000],
      flyers         |-> [min |-> 50, max |-> 500000],
      posters        |-> [min |-> 1, max |-> 10000],
      brochures      |-> [min |-> 50, max |-> 100000],
      booklets       |-> [min |-> 25, max |-> 50000],
      stickers       |-> [min |-> 50, max |-> 500000],
      banners        |-> [min |-> 1, max |-> 500],
      postcards      |-> [min |-> 100, max |-> 500000],
      default        |-> [min |-> 1, max |-> 100000] ]

STANDARD_SIZES ==
    [ business_cards |-> {"3.5x2", "2x3.5", "3x3"},
      flyers         |-> {"8.5x11", "5.5x8.5", "4x6", "11x17"},
      posters        |-> {"11x17", "18x24", "24x36"},
      postcards      |-> {"4x6", "5x7", "6x9"} ]

MIN_PRINT_DPI == 300
WARN_DPI_THRESHOLD == 200

SLOW_OPTIONS == {"foil_stamping", "embossing", "die_cut"}

Entry(kind, names, num) == [kind |-> kind, names |-> names, num |-> num]

OptionSet(specs) == {specs.options[i] : i \in DOMAIN specs.options}

\* PRODUCT TYPE VALIDATION
ProductErrors(specs) ==
    IF ~TruthyStr(specs.product_type) THEN <<Entry("product_required", {}, 0)>>
    ELSE IF Val(specs.product_type) \notin VALID_PRODUCT_TYPES
    THEN <<Entry("unknown_product", {Val(specs.product_type)}, 0)>>
    ELSE <<>>

\* QUANTITY VALIDATION
QuantityErrors(specs) ==
    IF specs.quantity = None THEN <<Entry("quantity_required", {}, 0)>>
    ELSE IF Val(specs.quantity) <= 0 THEN <<Entry("quantity_not_positive", {}, 0)>>
    ELSE LET key == IF TruthyStr(specs.product_type)
                    THEN Val(specs.product_type) ELSE "default"
             limits == Get(QUANTITY_LIMITS, key, QUANTITY_LIMITS["default"])
         IN  IF Val(specs.quantity) < limits.min
             THEN <<Entry("below_minimum", {}, limits.min)>>
             ELSE IF Val(specs.quantity) > limits.max
             THEN <<Entry("above_maximum", {}, limits.max)>>
             ELSE <<>>

\* ARTWORK QUALITY VALIDATION
DpiErrors(specs) ==
    IF specs.artwork_dpi # None /\ Val(specs.artwork_dpi) < WARN_DPI_THRESHOLD
    THEN <<Entry("dpi_too_low", {}, Val(specs.artwork_dpi))>> ELSE <<>>

DpiWarnings(specs) ==
    IF /\ specs.artwork_dpi # None
       /\ Val(specs.artwork_dpi) >= WARN_DPI_THRESHOLD
       /\ Val(specs.artwork_dpi) < MIN_PRINT_DPI
    THEN <<Entry("dpi_below_recommended", {}, Val(specs.artwork_dpi))>> ELSE <<>>

\* the conflict of a rush turnaround with slow options left to the warnings
TurnaroundErrors_no_conflict(specs) ==
    IF specs.turnaround_days = None THEN <<>>
    ELSE IF Val(specs.turnaround_days) < 0
    THEN <<Entry("negative_turnaround", {}, 0)>> ELSE <<>>

\* TURNAROUND / RUSH VALIDATION
TurnaroundErrors(specs) ==
    IF specs.turnaround_days = None THEN <<>>
    ELSE LET t == Val(specs.turnaround_days)
             conflicting == OptionSet(specs) \cap SLOW_OPTIONS
         IN  (IF t < 0 THEN <<Entry("negative_turnaround", {}, 0)>> ELSE <<>>)
             \o (IF t <= 2 /\ specs.options # <<>> /\ conflicting # {}
                 THEN <<Entry("rush_conflict", conflicting, 0)>> ELSE <<>>)

TurnaroundWarnings(specs) ==
    IF specs.turnaround_days = None THEN <<>>
    ELSE LET t == Val(specs.turnaround_days)
         IN  IF t < 0 THEN <<>>
             ELSE IF t = 0 THEN <<Entry("same_day", {}, 0)>>
             ELSE IF t <= 2 THEN <<Entry("rush_turnaround", {}, t)>>
             ELSE <<>>

\* SIZE VALIDATION
SizeWarnings(specs) ==
    IF ~TruthyStr(specs.size) THEN <<Entry("size_default", {}, 0)>>
    ELSE IF /\ TruthyStr(specs.product_type)
            /\ Val(specs.product_type) \in DOMAIN STANDARD_SIZES
            /\ Val(specs.size) \notin STANDARD_SIZES[Val(specs.product_type)]
    THEN <<Entry("non_standard_size", {Val(specs.size)}, 0)>>
    ELSE <<>>

\* OPTIONS VALIDATION
OptionWarnings(specs) ==
    IF specs.options = <<>> THEN <<>>
    ELSE LET unknown_options == OptionSet(specs) \ VALID_OPTIONS
         IN  (IF unknown_options # {}
              THEN <<Entry("unknown_options", unknown_options, 0)>> ELSE <<>>)
             \o (IF "embossing" \in OptionSet(specs) /\ "lamination" \in OptionSet(specs)
                 THEN <<Entry("emboss_lamination", {}, 0)>> ELSE <<>>)

\* MISSING OPTIONAL FIELDS
DefaultWarnings(specs) ==
    (IF ~TruthyStr(specs.sides) THEN <<Entry("sides_default", {}, 0)>> ELSE <<>>)
    \o (IF ~TruthyStr(specs.finish) THEN <<Entry("finish_default", {}, 0)>> ELSE <<>>)
    \o (IF ~TruthyStr(specs.color_mode) THEN <<Entry("color_default", {}, 0)>> ELSE <<>>)

\* BUSINESS RULE WARNINGS
BusinessWarnings(specs) ==
    (IF TruthyInt(specs.quantity) /\ Val(specs.quantity) >= 5000
     THEN <<Entry("large_order", {}, 0)>> ELSE <<>>)
    \o (IF specs.options # <<>>
           /\ ("foil_stamping" \in OptionSet(specs) \/ "embossing" \in OptionSet(specs))
        THEN <<Entry("specialty_finish", {}, 0)>> ELSE <<>>)

MissingFields(specs) ==
    (IF ~TruthyStr(specs.size) THEN <<"size">> ELSE <<>>)
    \o (IF ~TruthyStr(specs.sides) THEN <<"sides">> ELSE <<>>)
    \o (IF ~TruthyStr(specs.finish) THEN <<"finish">> ELSE <<>>)
    \o (IF ~TruthyStr(specs.color_mode) THEN <<"color_mode">> ELSE <<>>)
    \o (IF ~TruthyStr(specs.paper_stock) THEN <<"paper_stock">> ELSE <<>>)

\* the errors and the warnings, in the order the checks append them
Errors(specs) ==
    ProductErrors(specs) \o QuantityErrors(specs) \o DpiErrors(specs)
    \o TurnaroundErrors(specs)

Warnings(specs) ==
    SizeWarnings(specs) \o DpiWarnings(specs) \o TurnaroundWarnings(specs)
    \o OptionWarnings(specs) \o DefaultWarnings(specs) \o BusinessWarnings(specs)

\* validity that warnings take away too
IsValid_no_warnings(errors, warnings, missing_fields) ==
    Len(errors) = 0 /\ Len(warnings) = 0

\* DETERMINE OVERALL VALIDITY: is_valid = len(errors) == 0
IsValid(errors, warnings, missing_fields) == Len(errors) = 0

\* the checks on a specification that is there
CheckSpecs(specs) ==
    [ is_valid |-> IsValid(Errors(specs), Warnings(specs), MissingFields(specs)),
      errors |-> Errors(specs),
      warnings |-> Warnings(specs),
      missing_fields |-> MissingFields(specs) ]

\* a specification with every field at its default
EmptySpecs ==
    [ product_type |-> None, quantity |-> None, size |-> None, paper_stock |-> None,
      sides |-> None, finish |-> None, color_mode |-> None, options |-> <<>>,
      turnaround_days |-> None, is_rush |-> Some(FALSE), artwork_dpi |-> None ]

\* validate_specs without the early return: None goes through the checks as a
\* specification with nothing in it would
validate_specs_no_return(specs) ==
    IF specs = None THEN CheckSpecs(EmptySpecs) ELSE CheckSpecs(Val(specs))

\* validate_specs(specs): specs is None or Some(a PrintSpecs)
validate_specs(specs) ==
    IF specs = None
    THEN [ is_valid |-> FALSE,
           errors |-> <<Entry("no_specifications", {}, 0)>>,
           warnings |-> <<>>,
           missing_fields |-> <<>> ]
    ELSE CheckSpecs(Val(specs))

(***************************************************************************)
(* PrintSpecs construction and the cached configuration.                   *)
(***************************************************************************)

\* PrintSpecs(**fields): pydantic checks quantity (ge=1) and the two Literal
\* fields, and raises a ValidationError otherwise
PrintSpecs(raw) ==
    IF /\ raw.quantity # None => Val(raw.quantity) >= 1
       /\ raw.sides # None => Val(raw.sides) \in {"single", "double"}
       /\ raw.color_mode # None =>
              Val(raw.color_mode) \in {"full_color", "black_white", "spot_color"}
    THEN [ok |-> TRUE, value |-> raw]
    ELSE [ok |-> FALSE, error |-> "ValidationError"]

\* what open() and json.load() make of the pricing.json document
\* "absent": no file; "malformed": not JSON; "alt": a configuration;
\* "incomplete": JSON that is not a configuration, the empty object {}
FileStates == {"absent", "malformed", "alt", "incomplete"}

\* json.load of the document {}: returned as it is, nothing checks its keys
IncompleteConfig == <<>>

\* the body of load_pricing_config: the configuration read from the file
ReadConfig(f) ==
    IF f = "absent" THEN "default"
    ELSE IF f = "malformed" THEN "default"
    ELSE f

\* load_pricing_config without its cache: the file is read on every call
load_pricing_config_uncached(cached, f) == ReadConfig(f)

\* @lru_cache(maxsize=1): the first result is kept and returned from then on
load_pricing_config(cached, f) == IF cached # "none" THEN cached ELSE ReadConfig(f)

\* the configuration object a cache entry holds
Config(id) ==
    IF id = "default" THEN get_default_pricing_config
    ELSE IF id = "incomplete" THEN IncompleteConfig
    ELSE AltConfig

(***************************************************************************)
(* The inputs.                                                             *)
(***************************************************************************)
MaxOptions == 2

OptionNames == {"rounded_corners", "foil_stamping", "embossing", "glitter"}
OptionLists == UNION {[1..n -> OptionNames] : n \in 0..MaxOptions}

ProductTypes == {None, Some("business_cards"), Some("unknown_xyz")}

Quantities ==
    {None} \cup {Some(q) : q \in {-1, 1, 100, 250, 499, 500, 1000, 5000, 10000}}

\* turnaround_days, is_rush
RushProfiles ==
    { <<None, Some(FALSE)>>, <<None, Some(TRUE)>>, <<Some(0), Some(FALSE)>>,
      <<Some(1), Some(FALSE)>>, <<Some(2), Some(FALSE)>>, <<Some(3), Some(TRUE)>>,
      <<Some(-1), Some(FALSE)>> }

PlainAttrs ==
    [sides |-> None, color_mode |-> None, finish |-> None, size |-> None,
     paper_stock |-> None, artwork_dpi |-> None]

AttrProfiles ==
    { PlainAttrs,
      [sides |-> Some("single"), color_mode |-> Some("full_color"),
       finish |-> Some("matte"), size |-> Some("3.5x2"),
       paper_stock |-> Some("14pt"), artwork_dpi |-> Some(300)],
      [sides |-> Some("double"), color_mode |-> Some("black_white"),
       finish |-> Some("gloss"), size |-> Some("A4"),
       paper_stock |-> None, artwork_dpi |-> Some(150)],
      [sides |-> Some("double"), color_mode |-> Some("spot_color"),
       finish |-> Some("uncoated"), size |-> None,
       paper_stock |-> None, artwork_dpi |-> Some(250)] }

MkRaw(p, q, a, o, r) ==
    [ product_type |-> p, quantity |-> q, size |-> a.size,
      paper_stock |-> a.paper_stock, sides |-> a.sides, finish |-> a.finish,
      color_mode |-> a.color_mode, options |-> o, turnaround_days |-> r[1],
      is_rush |-> r[2], artwork_dpi |-> a.artwork_dpi ]

\* three slices: every option list on a plain order; every attribute and rush
\* profile with and without a per-unit option; every rush profile with the
\* slow options
Inputs ==
    { MkRaw(p, q, PlainAttrs, o, <<None, Some(FALSE)>>) :
        p \in {Some("business_cards"), Some("unknown_xyz")}, q \in Quantities,
        o \in OptionLists }
    \cup
    { MkRaw(p, q, a, o, r) :
        p \in ProductTypes, q \in Quantities, a \in AttrProfiles,
        o \in {<<>>, <<"foil_stamping">>}, r \in RushProfiles }
    \cup
    { MkRaw(Some("business_cards"), Some(q), PlainAttrs, o, r) :
        q \in {100, 1000},
        o \in { <<"die_cut">>, <<"die_cut", "embossing">>, <<"rounded_corners">>,
                <<"glitter", "foil_stamping">> },
        r \in RushProfiles }

(***************************************************************************)
(* The state machine: one caller building a specification and calling the  *)
(* validator and the pricing engine on it, in a process that reads         *)
(* pricing.json, whatever it holds at that moment, when the configuration  *)
(* is first needed.                                                        *)
(***************************************************************************)
VARIABLES
    cache,       \* load_pricing_config's cache: "none" or the configuration held
    pc,          \* "start", "ready" (a specification or None in hand), "raised"
    request,     \* None or Some(the fields given to PrintSpecs)
    specs,       \* None or Some(PrintSpecs)
    validation,  \* None or Some(the last ValidationResult)
    estimate,    \* None or Some(the last result of calculate_price)
    first,       \* None or Some(the first result of calculate_price)
    repeated,    \* whether calculate_price has returned more than once
    locals,      \* None or Some(the locals of the last calculate_price call)
    returned,    \* None or Some(the ValidationResult as validate_specs returned it)
    calls,       \* the services the intake handler has called, in order
    response,    \* None or Some(the IntakeResponse returned)
    webhook,     \* "unconfigured", "idle", "queued", "delivered" or "failed"
    attempts,    \* the POSTs send_to_n8n has made
    extraction,  \* how extract_print_specs ended: "pending", "specs", "none", "raised"
    shared,      \* the configuration object the cache holds, read by every thread
    objects,     \* the PrintSpecs objects given to concurrent invocations
    procs        \* the concurrent invocations: operation, argument, position, locals

vars == <<cache, pc, request, specs, validation, estimate, first, repeated, locals,
          returned, calls, response, webhook, attempts, extraction, shared, objects,
          procs>>

\* the state of concurrent invocations, which a single caller does not have
concVars == <<shared, objects, procs>>

\* the state of the single caller
callerVars == <<cache, pc, request, specs, validation, estimate, first, repeated,
                locals>>

\* the state of the intake handler, which the callers of the services leave alone
intakeVars == <<returned, calls, response, webhook, attempts, extraction>>

Init ==
    /\ cache = "none"
    /\ pc = "start"
    /\ request = None
    /\ specs = None
    /\ validation = None
    /\ estimate = None
    /\ first = None
    /\ repeated = FALSE
    /\ locals = None
    /\ returned = None
    /\ calls = <<>>
    /\ response = None
    /\ webhook = "unconfigured"
    /\ attempts = 0
    /\ extraction = "pending"
    /\ shared = <<>>
    /\ objects = <<>>
    /\ procs = <<>>

\* the caller builds PrintSpecs(**raw)
Construct(raw) ==
    /\ pc = "start"
    /\ request' = Some(raw)
    /\ LET r == PrintSpecs(raw)
       IN  IF r.ok THEN pc' = "ready" /\ specs' = Some(r.value)
           ELSE pc' = "raised" /\ specs' = specs
    /\ UNCHANGED <<cache, validation, estimate, first, repeated, locals>>
    /\ UNCHANGED concVars
    /\ UNCHANGED intakeVars

\* the caller has no specification (the extractor returned None)
Absent ==
    /\ pc = "start"
    /\ pc' = "ready"
    /\ UNCHANGED <<cache, request, specs, validation, estimate, first, repeated, locals>>
    /\ UNCHANGED concVars
    /\ UNCHANGED intakeVars

CallValidate ==
    /\ pc = "ready"
    /\ validation' = Some(validate_specs(specs))
    /\ UNCHANGED <<cache, pc, request, specs, estimate, first, repeated, locals>>
    /\ UNCHANGED concVars
    /\ UNCHANGED intakeVars

\* what load_pricing_config() can return now: the cached configuration, or the
\* one read from pricing.json, whatever the file holds at this moment
Loadable == {load_pricing_config(cache, f) : f \in FileStates}

\* what a call returns and leaves behind, given the locals it computed
Return(id, l, result) ==
    /\ cache' = id
    /\ estimate' = Some(result)
    /\ first' = IF first = None THEN Some(result) ELSE first
    /\ repeated' = (first # None)
    /\ locals' = Some(l)

BuildAndReturn(id, l) == Return(id, l, BuildEstimate(l))

\* what a call that raises at the product lookup leaves behind
Raise(id) ==
    /\ cache' = id
    /\ estimate' = Some(KeyError)
    /\ first' = IF first = None THEN Some(KeyError) ELSE first
    /\ repeated' = (first # None)
    /\ locals' = None

\* calculate_price(specs)
CallPrice ==
    /\ pc = "ready"
    /\ specs # None
    /\ \E id \in Loadable :
           IF ProductLookupRaises(Config(id)) THEN Raise(id)
           ELSE BuildAndReturn(id, PriceLocals(Val(specs), Config(id)))
    /\ UNCHANGED <<pc, request, specs, validation>>
    /\ UNCHANGED concVars
    /\ UNCHANGED intakeVars

\* load_pricing_config() called on its own, by this caller or another
LoadConfig ==
    /\ \E id \in Loadable : cache' = id
    /\ UNCHANGED <<pc, request, specs, validation, estimate, first, repeated, locals>>
    /\ UNCHANGED concVars
    /\ UNCHANGED intakeVars

Next ==
    \/ \E raw \in Inputs : Construct(raw)
    \/ Absent
    \/ CallValidate
    \/ CallPrice
    \/ LoadConfig

Spec == Init /\ [][Next]_vars

(***************************************************************************)
(* The intake handler: one request through extraction, validation, pricing *)
(* and the response, with the webhook delivered in the background.         *)
(***************************************************************************)

IntakeProducts == {None, Some(""), Some("business_cards"), Some("unknown_xyz")}
IntakeQuantities == {None, Some(-1), Some(100), Some(1000)}

\* the fields the language model gives for a request
IntakeInputs ==
    { MkRaw(p, q, PlainAttrs, o, r) :
        p \in IntakeProducts, q \in IntakeQuantities,
        o \in {<<>>, <<"foil_stamping">>, <<"glitter">>},
        r \in {<<None, Some(FALSE)>>, <<Some(1), Some(FALSE)>>} }

\* settings.n8n_webhook_url is set or not
IntakeInit ==
    /\ cache = "none"
    /\ pc = "start"
    /\ request = None
    /\ specs = None
    /\ validation = None
    /\ estimate = None
    /\ first = None
    /\ repeated = FALSE
    /\ locals = None
    /\ returned = None
    /\ calls = <<>>
    /\ response = None
    /\ webhook \in {"unconfigured", "idle"}
    /\ attempts = 0
    /\ extraction = "pending"
    /\ shared = <<>>
    /\ objects = <<>>
    /\ procs = <<>>

\* the response of the except branch of Step 1
ExtractionFailed ==
    [ status |-> "extraction_failed",
      extracted_specs |-> None,
      validation |-> [ is_valid |-> FALSE,
                       errors |-> <<Entry("extraction_failed", {}, 0)>>,
                       warnings |-> <<>>,
                       missing_fields |-> <<>> ],
      estimate |-> None ]

\* Step 1, the model answers with JSON: PrintSpecs(**extracted_data) returns the
\* specification or raises, and the raise ends the request
IntakeExtract(raw) ==
    /\ pc = "start"
    /\ request' = Some(raw)
    /\ LET r == PrintSpecs(raw)
       IN  IF r.ok
           THEN /\ pc' = "extracted" /\ specs' = Some(r.value)
                /\ response' = response /\ extraction' = "specs"
           ELSE /\ pc' = "responded" /\ specs' = specs
                /\ response' = Some(ExtractionFailed) /\ extraction' = "raised"
    /\ UNCHANGED <<cache, validation, estimate, first, repeated, locals,
                   returned, calls, webhook, attempts>>
    /\ UNCHANGED concVars

\* Step 1, extract_print_specs returns None (no content, unknown input type,
\* an answer that is not JSON)
IntakeExtractNone ==
    /\ pc = "start"
    /\ pc' = "extracted"
    /\ extraction' = "none"
    /\ UNCHANGED <<cache, request, specs, validation, estimate, first, repeated,
                   locals, returned, calls, response, webhook, attempts>>
    /\ UNCHANGED concVars

\* Step 1, extract_print_specs raises (the API call fails)
IntakeExtractRaises ==
    /\ pc = "start"
    /\ pc' = "responded"
    /\ response' = Some(ExtractionFailed)
    /\ extraction' = "raised"
    /\ UNCHANGED <<cache, request, specs, validation, estimate, first, repeated,
                   locals, returned, calls, webhook, attempts>>
    /\ UNCHANGED concVars

\* Step 2
IntakeValidate ==
    /\ pc = "extracted"
    /\ pc' = "validated"
    /\ validation' = Some(validate_specs(specs))
    /\ returned' = Some(validate_specs(specs))
    /\ calls' = Append(calls, "validate_specs")
    /\ UNCHANGED <<cache, request, specs, estimate, first, repeated, locals,
                   response, webhook, attempts, extraction>>
    /\ UNCHANGED concVars

\* a handler that prices only what validated
ShouldPrice_if_valid(extracted_specs, validation_result) ==
    /\ extracted_specs # None
    /\ TruthyStr(Val(extracted_specs).product_type)
    /\ TruthyInt(Val(extracted_specs).quantity)
    /\ validation_result.is_valid

\* if extracted_specs and extracted_specs.product_type and extracted_specs.quantity
ShouldPrice(extracted_specs, validation_result) ==
    /\ extracted_specs # None
    /\ TruthyStr(Val(extracted_specs).product_type)
    /\ TruthyInt(Val(extracted_specs).quantity)

PricingWarning == Entry("could_not_calculate_price", {}, 0)

\* Step 3, the condition holds: calculate_price returns the estimate, or raises
\* and the handler appends to the warnings of validation_result
IntakePrice ==
    /\ pc = "validated"
    /\ ShouldPrice(specs, Val(validation))
    /\ pc' = "priced"
    /\ calls' = Append(calls, "calculate_price")
    /\ \E id \in Loadable :
           /\ cache' = id
           /\ LET result == calculate_price(Val(specs), Config(id))
              IN  IF result.ok
                  THEN estimate' = Some(result) /\ validation' = validation
                  ELSE /\ estimate' = estimate
                       /\ validation' =
                              Some([Val(validation) EXCEPT
                                        !.warnings = Append(@, PricingWarning)])
    /\ UNCHANGED <<request, specs, first, repeated, locals, returned, response,
                   webhook, attempts, extraction>>
    /\ UNCHANGED concVars

\* Step 3, the condition fails
IntakeSkipPrice ==
    /\ pc = "validated"
    /\ ~ShouldPrice(specs, Val(validation))
    /\ pc' = "priced"
    /\ UNCHANGED <<cache, request, specs, validation, estimate, first, repeated,
                   locals, returned, calls, response, webhook, attempts, extraction>>
    /\ UNCHANGED concVars

\* a handler that reports every completed request as a success
ResponseStatus_always_success(validation_result) == "success"

\* status="success" if validation_result.is_valid else "validation_errors"
ResponseStatus(validation_result) ==
    IF validation_result.is_valid THEN "success" ELSE "validation_errors"

\* Step 4 and Step 5: the webhook is queued when a URL is configured, and the
\* response is returned
IntakeRespond ==
    /\ pc = "priced"
    /\ pc' = "responded"
    /\ webhook' = IF webhook = "idle" THEN "queued" ELSE webhook
    /\ response' =
           Some([ status |-> ResponseStatus(Val(validation)),
                  extracted_specs |-> specs,
                  validation |-> Val(validation),
                  estimate |-> estimate ])
    /\ UNCHANGED <<cache, request, specs, validation, estimate, first, repeated,
                   locals, returned, calls, attempts, extraction>>
    /\ UNCHANGED concVars

\* send_to_n8n with a failed POST put back in the queue
Deliver_retry ==
    /\ webhook = "queued"
    /\ \E outcome \in {"delivered", "queued"} : webhook' = outcome
    /\ attempts' = attempts + 1
    /\ UNCHANGED <<cache, pc, request, specs, validation, estimate, first,
                   repeated, locals, returned, calls, response, extraction>>
    /\ UNCHANGED concVars

\* send_to_n8n: one POST, whose failure is logged and swallowed
Deliver ==
    /\ webhook = "queued"
    /\ \E outcome \in {"delivered", "failed"} : webhook' = outcome
    /\ attempts' = attempts + 1
    /\ UNCHANGED <<cache, pc, request, specs, validation, estimate, first,
                   repeated, locals, returned, calls, response, extraction>>
    /\ UNCHANGED concVars

IntakeNext ==
    \/ \E raw \in IntakeInputs : IntakeExtract(raw)
    \/ IntakeExtractNone
    \/ IntakeExtractRaises
    \/ IntakeValidate
    \/ IntakePrice
    \/ IntakeSkipPrice
    \/ IntakeRespond
    \/ Deliver

IntakeSpec == IntakeInit /\ [][IntakeNext]_vars

(***************************************************************************)
(* Concurrent invocations: two threads, each running validate_specs or     *)
(* calculate_price statement group by statement group, on PrintSpecs       *)
(* objects they may share and on the one configuration object the cache    *)
(* of load_pricing_config holds.                                           *)
(***************************************************************************)

Workers == {1, 2}
ObjectIds == {1, 2}

ConcInputs ==
    { MkRaw(Some("business_cards"), Some(1000), PlainAttrs, <<"foil_stamping">>,
            <<Some(1), Some(FALSE)>>),
      MkRaw(Some("unknown_xyz"), None, PlainAttrs, <<"glitter">>,
            <<None, Some(FALSE)>>) }

Started ==
    { [op |-> o, arg |-> a, at |-> "start", l |-> <<>>, result |-> None] :
        o \in {"validate_specs", "calculate_price"}, a \in ObjectIds }

ConcInit ==
    /\ cache \in {"default", "alt", "incomplete"}
    /\ shared = Config(cache)
    /\ objects \in [ObjectIds -> ConcInputs]
    /\ procs \in [Workers -> Started]
    /\ pc = "start"
    /\ request = None
    /\ specs = None
    /\ validation = None
    /\ estimate = None
    /\ first = None
    /\ repeated = FALSE
    /\ locals = None
    /\ returned = None
    /\ calls = <<>>
    /\ response = None
    /\ webhook = "unconfigured"
    /\ attempts = 0
    /\ extraction = "pending"

\* list.sort(reverse=True) on the list of the configuration: the object changes
sorted_in_place(config) ==
    [config EXCEPT !.quantity_discounts = SortedTiers(config.quantity_discounts)]

\* sorted(config.get("quantity_discounts", []), ...) builds a new list: the
\* configuration object after the call is the one before it
sorted(config) == config

\* worker w moves to position at with locals l and no result yet
Advance(w, at, l) ==
    /\ procs' = [procs EXCEPT ![w].at = at, ![w].l = l]
    /\ UNCHANGED <<shared, objects>>
    /\ UNCHANGED callerVars
    /\ UNCHANGED intakeVars

\* worker w returns (or raises) result
Finish(w, result) ==
    /\ procs' = [procs EXCEPT ![w].at = "done", ![w].result = Some(result)]
    /\ UNCHANGED <<shared, objects>>
    /\ UNCHANGED callerVars
    /\ UNCHANGED intakeVars

At(w, op, at) == procs[w].op = op /\ procs[w].at = at
Arg(w) == objects[procs[w].arg]

\* config = load_pricing_config(): the cached object
PriceLoad(w) ==
    /\ At(w, "calculate_price", "start")
    /\ Advance(w, "loaded", <<>>)

\* the product lookup, STEP 1 to STEP 3
PriceBase(w) ==
    /\ At(w, "calculate_price", "loaded")
    /\ IF ProductLookupRaises(shared) THEN Finish(w, KeyError)
       ELSE Advance(w, "options", BaseCosts(Arg(w), shared))

\* STEP 4, STEP 5
PriceOptions(w) ==
    /\ At(w, "calculate_price", "options")
    /\ Advance(w, "discount", CalculateOptionCosts(Arg(w), shared, procs[w].l))

\* STEP 6
PriceDiscount(w) ==
    /\ At(w, "calculate_price", "discount")
    /\ procs' = [procs EXCEPT ![w].at = "rush",
                              ![w].l = ApplyQuantityDiscount(shared, procs[w].l)]
    /\ shared' = sorted(shared)
    /\ UNCHANGED objects
    /\ UNCHANGED callerVars
    /\ UNCHANGED intakeVars

\* STEP 7
PriceRush(w) ==
    /\ At(w, "calculate_price", "rush")
    /\ Advance(w, "margin", ApplyRushFee(Arg(w), shared, procs[w].l))

\* STEP 8
PriceMargin(w) ==
    /\ At(w, "calculate_price", "margin")
    /\ Advance(w, "totals", CalculateMargin(CalculateCostSubtotal(shared, procs[w].l)))

\* STEP 9
PriceTotals(w) ==
    /\ At(w, "calculate_price", "totals")
    /\ Advance(w, "build",
               CalculateTotal(
                 CalculateTax(shared,
                   EnforceMinimum(Arg(w), shared,
                     CalculateSubtotal(Arg(w), shared, procs[w].l)))))

\* BUILD RESPONSE
PriceBuild(w) ==
    /\ At(w, "calculate_price", "build")
    /\ Finish(w, BuildEstimate(procs[w].l))

\* the checks of validate_specs that append to errors
ValidateErrors(w) ==
    /\ At(w, "validate_specs", "start")
    /\ Advance(w, "warnings", [errors |-> Errors(Arg(w))])

\* the checks that append to warnings and to missing_fields
ValidateWarnings(w) ==
    /\ At(w, "validate_specs", "warnings")
    /\ Advance(w, "build",
               [warnings |-> Warnings(Arg(w)),
                missing_fields |-> MissingFields(Arg(w))] @@ procs[w].l)

\* return ValidationResult(...)
ValidateBuild(w) ==
    /\ At(w, "validate_specs", "build")
    /\ LET l == procs[w].l
       IN  Finish(w, [ is_valid |-> IsValid(l.errors, l.warnings, l.missing_fields),
                       errors |-> l.errors,
                       warnings |-> l.warnings,
                       missing_fields |-> l.missing_fields ])

ConcNext ==
    \/ \E w \in Workers : PriceLoad(w)
    \/ \E w \in Workers : PriceBase(w)
    \/ \E w \in Workers : PriceOptions(w)
    \/ \E w \in Workers : PriceDiscount(w)
    \/ \E w \in Workers : PriceRush(w)
    \/ \E w \in Workers : PriceMargin(w)
    \/ \E w \in Workers : PriceTotals(w)
    \/ \E w \in Workers : PriceBuild(w)
    \/ \E w \in Workers : ValidateErrors(w)
    \/ \E w \in Workers : ValidateWarnings(w)
    \/ \E w \in Workers : ValidateBuild(w)

ConcSpec == ConcInit /\ [][ConcNext]_vars

(***************************************************************************)
(* Properties.                                                             *)
(***************************************************************************)
\* the estimate returned, the locals behind it, the specification priced and
\* the configuration used
Priced == estimate # None /\ Val(estimate).ok
E == Val(estimate)
L == Val(locals)
S == Val(specs)
Cfg == Config(cache)
HasNote(kind) == \E i \in DOMAIN E.estimate_notes : E.estimate_notes[i].kind = kind

\* C1: every invocation of calculate_price on a specification returns the
\* estimate the first invocation returned, field for field, notes and their
\* order included, whatever validation, pricing or configuration loads happen
\* in between.
C1_Deterministic == estimate # None => estimate = first

C1_Witness ==
    /\ repeated
    /\ Priced
    /\ validation # None
    /\ cache = "alt"
    /\ Len(E.estimate_notes) >= 2

\* the quantities a priced order is compared with
ProbeQuantities == {1, 100, 250, 499, 500, 501, 1000, 5000, 10000}

\* the base costs of the priced specification at another quantity
CostsAt(q) == BaseCosts([S EXCEPT !.quantity = Some(q)], Cfg)

\* C2 as stated: under the default configuration, with everything but the
\* quantity fixed, material cost, print cost and finishing cost at a larger
\* quantity are each not lower than at the smaller one, on either side of the
\* 500-unit threshold.
C2_MonotoneAcrossThreshold ==
    (Priced /\ cache = "default" /\ S.quantity # None) =>
        \A q2 \in ProbeQuantities :
            q2 > L.quantity =>
                /\ round2(CostsAt(q2).material_cost) >= E.breakdown.material_cost
                /\ round2(CostsAt(q2).print_cost) >= E.breakdown.print_cost
                /\ round2(CostsAt(q2).finishing_cost) >= E.breakdown.finishing_cost

\* C2, amended: under the default configuration, with everything but the
\* quantity fixed, material cost and finishing cost at a larger quantity are
\* not lower than at the smaller one, and neither is the print cost when both
\* quantities are below 500 or both are at least 500.
C2_MonotoneWithinMethod ==
    (Priced /\ cache = "default" /\ S.quantity # None) =>
        \A q2 \in ProbeQuantities :
            q2 > L.quantity =>
                /\ round2(CostsAt(q2).material_cost) >= E.breakdown.material_cost
                /\ round2(CostsAt(q2).finishing_cost) >= E.breakdown.finishing_cost
                /\ ((L.quantity < 500) = (q2 < 500) =>
                        round2(CostsAt(q2).print_cost) >= E.breakdown.print_cost)

C2_Witness ==
    /\ Priced
    /\ cache = "default"
    /\ S.quantity = Some(499)
    /\ round2(CostsAt(500).print_cost) < E.breakdown.print_cost
    /\ round2(CostsAt(250).print_cost) < E.breakdown.print_cost
    /\ round2(CostsAt(500).material_cost) > E.breakdown.material_cost

\* C3: the discount is the fraction of one tier, a tier with the largest
\* min_quantity among those the quantity reaches, in whatever order the
\* configuration lists the tiers, and the amount is -(pre-discount total) x
\* that fraction; when the quantity reaches no tier the discount is 0 and no
\* volume discount note is recorded.  Under the default configuration the
\* fraction is 0 below 250, 0.05 from 250, 0.10 from 500, 0.15 from 1000,
\* 0.20 from 5000 and 0.25 from 10000.
C3_TierSelection ==
    Priced =>
        LET tiers == Get(Cfg, "quantity_discounts", <<>>)
            qualifying == {i \in DOMAIN tiers : tiers[i].min_quantity <= L.quantity}
            q == L.quantity
        IN  /\ qualifying = {} =>
                  /\ IsZeroA(L.quantity_discount)
                  /\ L.discount_rate = <<0, 1>>
                  /\ ~HasNote("volume_discount")
            /\ qualifying # {} =>
                  \E i \in qualifying :
                      /\ \A j \in qualifying :
                             tiers[j].min_quantity <= tiers[i].min_quantity
                      /\ L.discount_rate = tiers[i].discount
                      /\ L.quantity_discount =
                             NegA(MulR(L.pre_discount_total, tiers[i].discount))
                      /\ HasNote("volume_discount")
            /\ E.breakdown.quantity_discount = round2(L.quantity_discount)
            /\ cache = "default" =>
                  L.discount_rate =
                      IF q < 250 THEN <<0, 1>>
                      ELSE IF q < 500 THEN <<1, 20>>
                      ELSE IF q < 1000 THEN <<1, 10>>
                      ELSE IF q < 5000 THEN <<3, 20>>
                      ELSE IF q < 10000 THEN <<1, 5>>
                      ELSE <<1, 4>>

C3_Witness ==
    /\ Priced
    /\ cache = "alt"
    /\ L.quantity = 500
    /\ L.discount_rate = <<1, 10>>
    /\ LtA(L.quantity_discount, Zero)

C5_NonNegative ==
    (estimate # None /\ cache = "default") =>
        /\ E.ok
        /\ LeA(Zero, L.material_cost) /\ E.breakdown.material_cost >= 0
        /\ LeA(Zero, L.print_cost) /\ E.breakdown.print_cost >= 0
        /\ LeA(Zero, L.setup_cost) /\ E.breakdown.setup_cost >= 0
        /\ LeA(Zero, L.finishing_cost) /\ E.breakdown.finishing_cost >= 0
        /\ \A o \in DOMAIN E.breakdown.option_costs :
               LeA(Zero, L.option_costs[o]) /\ E.breakdown.option_costs[o] >= 0
        /\ LeA(Zero, L.total) /\ E.total >= 0

C5_Witness ==
    /\ Priced
    /\ cache = "default"
    /\ E.print_method = "offset"
    /\ DOMAIN E.breakdown.option_costs # {}
    /\ E.breakdown.quantity_discount < 0
    /\ E.total > 0

\* C6 as stated: the specification with product type "unknown_xyz" and
\* quantity -1 reaches validate_specs, which answers is_valid = false with an
\* error for the unknown product and an error for the non-positive quantity.
C6_BothErrorsReported ==
    ( /\ request # None
      /\ Val(request).product_type = Some("unknown_xyz")
      /\ Val(request).quantity = Some(-1) ) =>
        /\ pc = "ready"
        /\ specs = request
        /\ LET v == validate_specs(specs)
           IN  /\ ~v.is_valid
               /\ \E i \in DOMAIN v.errors : v.errors[i].kind = "unknown_product"
               /\ \E i \in DOMAIN v.errors : v.errors[i].kind = "quantity_not_positive"

\* C7: a specification whose turnaround is present and <= 2 and whose options
\* include foil_stamping, embossing or die_cut is invalid, with an error that
\* names every one of those options it includes.
C7_RushConflictIsError ==
    ( /\ validation # None
      /\ specs # None
      /\ S.turnaround_days # None
      /\ Val(S.turnaround_days) <= 2
      /\ OptionSet(S) \cap {"foil_stamping", "embossing", "die_cut"} # {} ) =>
        LET v == Val(validation)
        IN  /\ ~v.is_valid
            /\ \E i \in DOMAIN v.errors :
                   /\ v.errors[i].kind = "rush_conflict"
                   /\ v.errors[i].names =
                          OptionSet(S) \cap {"foil_stamping", "embossing", "die_cut"}

C7_Witness ==
    /\ validation # None
    /\ specs # None
    /\ S.turnaround_days = Some(1)
    /\ S.options = <<"die_cut", "embossing">>
    /\ ~Val(validation).is_valid
    /\ Len(Val(validation).errors) = 1
    /\ Val(validation).errors[1].names = {"die_cut", "embossing"}

\* C8: an estimate with a non-zero quantity discount carries a volume discount
\* note, one with a non-zero rush fee a rush fee note, and one whose subtotal
\* was raised to the minimum price a minimum price note.
C8_NotesAccount ==
    Priced =>
        /\ (~IsZeroA(L.quantity_discount) \/ E.breakdown.quantity_discount # 0) =>
               HasNote("volume_discount")
        /\ (~IsZeroA(L.rush_fee) \/ E.breakdown.rush_fee # 0) => HasNote("rush_fee")
        /\ L.subtotal # L.unfloored => HasNote("minimum_price")

C8_Witness ==
    /\ Priced
    /\ E.breakdown.quantity_discount < 0
    /\ E.breakdown.rush_fee > 0
    /\ L.subtotal = L.unfloored
    /\ HasNote("volume_discount")
    /\ HasNote("rush_fee")
    /\ ~HasNote("minimum_price")

\* C9: the method is digital exactly when the quantity is below the configured
\* threshold and offset otherwise (499 digital and 500 offset with the default
\* threshold of 500), and the setup cost and the print-cost multiplier are
\* those the configuration gives for the method selected.
C9_MethodThreshold ==
    Priced =>
        LET threshold ==
                Get(Get(Cfg, "print_method", <<>>), "threshold_quantity", 500)
            selected == Cfg.print_method[E.print_method]
            product_config == ProductConfig(S, Cfg)
        IN  /\ E.print_method \in {"digital", "offset"}
            /\ E.print_method = "digital" <=> L.quantity < threshold
            /\ cache = "default" =>
                  /\ threshold = 500
                  /\ L.quantity = 499 => E.print_method = "digital"
                  /\ L.quantity = 500 => E.print_method = "offset"
            /\ E.breakdown.setup_cost = selected.setup_cost
            /\ L.print_multiplier = selected.cost_multiplier
            /\ L.print_cost =
                   MulR(MulR(Cents(product_config.print_per_unit * L.quantity),
                             selected.cost_multiplier), L.modifier_total)

C9_Witness ==
    /\ Priced
    /\ cache = "default"
    /\ L.quantity = 500
    /\ E.print_method = "offset"
    /\ E.breakdown.setup_cost = 15000
    /\ L.print_multiplier = <<3, 5>>

\* C10: a flat option costs its price at every quantity; a per-unit option
\* costs its rate times the quantity, so at quantity 1000 exactly 10 times
\* what it costs at quantity 100.
C10_OptionModes ==
    Priced =>
        \A o \in DOMAIN E.breakdown.option_costs :
            LET opt_config == Cfg.options[o]
            IN  /\ opt_config.type = "flat" =>
                      /\ E.breakdown.option_costs[o] = opt_config.price
                      /\ \A q \in ProbeQuantities :
                             OptionCosts(S, q, Cfg)[o] = L.option_costs[o]
                /\ opt_config.type = "per_unit" =>
                      /\ E.breakdown.option_costs[o] = opt_config.price * L.quantity
                      /\ L.quantity = 1000 =>
                             L.option_costs[o] = MulBy(OptionCosts(S, 100, Cfg)[o], 10)

C10_Witness ==
    /\ Priced
    /\ L.quantity = 1000
    /\ S.options = <<"rounded_corners", "foil_stamping">>
    /\ E.breakdown.option_costs["rounded_corners"] = Cfg.options["rounded_corners"].price
    /\ E.breakdown.option_costs["foil_stamping"] =
           10 * round2(OptionCosts(S, 100, Cfg)["foil_stamping"])

\* C11: is_valid is true exactly when the error list returned is empty,
\* whatever the warnings and the missing fields.
C11_ValidIffNoErrors ==
    validation # None =>
        (Val(validation).is_valid <=> Len(Val(validation).errors) = 0)

C11_Witness ==
    /\ validation # None
    /\ specs # None
    /\ Val(validation).is_valid
    /\ Len(Val(validation).errors) = 0
    /\ Len(Val(validation).warnings) >= 3
    /\ Len(Val(validation).missing_fields) >= 1

\* C20: for an absent specification validate_specs returns is_valid = false,
\* exactly one error, no warning and no missing field: none of the checks on a
\* specification is made.
C20_AbsentSpecification ==
    (validation # None /\ specs = None) =>
        /\ ~Val(validation).is_valid
        /\ Len(Val(validation).errors) = 1
        /\ Val(validation).errors[1].kind = "no_specifications"
        /\ Val(validation).warnings = <<>>
        /\ Val(validation).missing_fields = <<>>

C20_Witness ==
    /\ pc = "ready"
    /\ request = None
    /\ specs = None
    /\ validation # None
    /\ Len(Val(validation).errors) = 1

\* the priced specification without the options the configuration does not price
WithoutUnpriced(priced, config) ==
    [priced EXCEPT !.options =
        SelectSeq(priced.options, LAMBDA o : o \in DOMAIN Get(config, "options", <<>>))]

\* C12: under the default configuration calculate_price returns a complete
\* estimate for every specification: a product type that is absent or has no
\* entry is priced with the "default" entry, an absent quantity as 1, and an
\* option the configuration does not price costs nothing.
C12_NeverRaises ==
    (estimate # None /\ cache = "default") =>
        LET products == get_default_pricing_config.products
            entry == IF S.product_type # None /\ Val(S.product_type) \in DOMAIN products
                     THEN products[Val(S.product_type)] ELSE products["default"]
            known == OptionSet(S) \cap DOMAIN get_default_pricing_config.options
        IN  /\ E.ok
            /\ L.quantity = IF S.quantity = None THEN 1 ELSE Val(S.quantity)
            /\ L.material_cost = Cents(entry.material_per_unit * L.quantity)
            /\ L.minimum_price = entry.minimum_price
            /\ DOMAIN E.breakdown.option_costs = known
            /\ known # OptionSet(S) =>
                   LET other == BuildEstimate(PriceLocals(
                                    WithoutUnpriced(S, get_default_pricing_config),
                                    get_default_pricing_config))
                   IN  /\ other.breakdown = E.breakdown
                       /\ other.subtotal = E.subtotal
                       /\ other.total = E.total

C12_Witness ==
    /\ Priced
    /\ cache = "default"
    /\ S.product_type = Some("unknown_xyz")
    /\ S.quantity = None
    /\ S.options = <<"glitter", "rounded_corners">>
    /\ DOMAIN E.breakdown.option_costs = {"rounded_corners"}
    /\ E.breakdown.material_cost = 5

\* the product type of the priced specification has no entry in the product table
Substituted ==
    /\ Priced
    /\ TruthyStr(S.product_type)
    /\ Val(S.product_type) \notin DOMAIN Cfg.products

NoteKinds == {"double_sided", "unknown_option", "volume_discount", "rush_fee",
              "minimum_price"}

\* C13 as stated: whenever the "default" product configuration is substituted
\* for a product type without an entry, some note of the estimate records the
\* substitution.
C13_SubstitutionNoted ==
    Substituted =>
        \E i \in DOMAIN E.estimate_notes : E.estimate_notes[i].kind \notin NoteKinds

\* C13: the substitution of the "default" product configuration is silent: the
\* estimate, its notes included, is the one returned for the same specification
\* naming the product "default", every note is one of the double-sided,
\* unpriced-option, volume-discount, rush-fee and minimum-price notes, and only
\* the unpriced options are recorded, one note each.
C13_SubstitutionSilent ==
    Substituted =>
        /\ E = calculate_price([S EXCEPT !.product_type = Some("default")], Cfg)
        /\ \A i \in DOMAIN E.estimate_notes : E.estimate_notes[i].kind \in NoteKinds
        /\ \A o \in OptionSet(S) :
               o \notin DOMAIN Cfg.options
                   <=> \E i \in DOMAIN E.estimate_notes :
                           /\ E.estimate_notes[i].kind = "unknown_option"
                           /\ E.estimate_notes[i].name = o

C13_Witness ==
    /\ Substituted
    /\ S.product_type = Some("unknown_xyz")
    /\ S.options = <<"glitter">>
    /\ E.estimate_notes = <<Note("unknown_option", "glitter", 0)>>

\* C14: a rush fee is charged exactly when the rush flag is set or the
\* turnaround is present and at most 2 days, and is zero otherwise; the fee is
\* (pre-discount total + quantity discount) x (multiplier - 1), the multiplier
\* being same-day for a turnaround of 0, next-day for 1, 2-day for 2, and
\* next-day when the flag is set and no turnaround is given.
C14_RushFee ==
    Priced =>
        LET t == S.turnaround_days
            charged == S.is_rush = Some(TRUE) \/ (t # None /\ Val(t) <= 2)
            base == AddA(L.pre_discount_total, L.quantity_discount)
            rush_pricing == Cfg.rush_pricing
        IN  /\ E.breakdown.rush_fee = round2(L.rush_fee)
            /\ ~charged => IsZeroA(L.rush_fee) /\ ~HasNote("rush_fee")
            /\ charged => LtA(Zero, L.rush_fee) /\ HasNote("rush_fee")
            /\ t = Some(0) => L.rush_fee = MulR(base, MinusOne(rush_pricing["same_day"]))
            /\ t = Some(1) => L.rush_fee = MulR(base, MinusOne(rush_pricing["next_day"]))
            /\ t = Some(2) => L.rush_fee = MulR(base, MinusOne(rush_pricing["2_day"]))
            /\ (t = None /\ S.is_rush = Some(TRUE)) =>
                   L.rush_fee = MulR(base, MinusOne(rush_pricing["next_day"]))

C14_Witness ==
    /\ Priced
    /\ cache = "default"
    /\ S.quantity = Some(1000)
    /\ S.turnaround_days = Some(0)
    /\ LtA(L.quantity_discount, Zero)
    /\ L.rush_fee = AddA(L.pre_discount_total, L.quantity_discount)
    /\ E.breakdown.rush_fee > 0

\* C15: the steps are applied in the order discount, rush, margin, tax: the
\* margin amount is (pre-discount total + quantity discount + rush fee) x the
\* margin fraction, the unfloored subtotal is that cost subtotal plus the
\* margin amount, the tax is the subtotal x the tax fraction, and the total is
\* the subtotal plus the tax.
C15_StepOrder ==
    Priced =>
        LET cost_subtotal == AddA(AddA(L.pre_discount_total, L.quantity_discount),
                                  L.rush_fee)
        IN  /\ L.margin_amount = MulR(cost_subtotal, Cfg.margin_percent)
            /\ L.unfloored = AddA(cost_subtotal, L.margin_amount)
            /\ L.subtotal \in {L.unfloored, Cents(L.minimum_price)}
            /\ L.tax = MulR(L.subtotal, Cfg.tax_rate)
            /\ L.total = AddA(L.subtotal, L.tax)
            /\ E.breakdown.margin_amount = round2(L.margin_amount)
            /\ E.subtotal = round2(L.subtotal)
            /\ E.tax = round2(L.tax)
            /\ E.total = round2(L.total)

C15_Witness ==
    /\ Priced
    /\ cache = "alt"
    /\ S.quantity = Some(1000)
    /\ S.turnaround_days = Some(1)
    /\ LtA(L.quantity_discount, Zero)
    /\ LtA(Zero, L.rush_fee)
    /\ LtA(Zero, L.margin_amount)
    /\ L.subtotal = L.unfloored
    /\ LtA(Zero, L.tax)
    /\ LtA(L.subtotal, L.total)

\* C17 as stated: loading never fails: whatever the document holds that is not
\* a configuration, load_pricing_config leaves the embedded default
\* configuration, and every subsequent calculate_price call completes with the
\* price computed from the default values.
C17_LoadNeverFails ==
    cache \notin {"none", "alt"} =>
        /\ cache = "default"
        /\ estimate # None =>
               /\ E.ok
               /\ E = BuildEstimate(PriceLocals(S, get_default_pricing_config))

C18_ValidationNeverMutated ==
    returned # None =>
        /\ validation = returned
        /\ response # None => Val(response).validation = Val(returned)

\* what the invocation of worker w returns when it runs alone
Alone(w) ==
    IF procs[w].op = "calculate_price"
    THEN calculate_price(Arg(w), Config(cache))
    ELSE validate_specs(Some(Arg(w)))

ResultsAsAlone ==
    \A w \in Workers : procs[w].result # None => Val(procs[w].result) = Alone(w)

\* C19: concurrent invocations of validate_specs and calculate_price on one
\* cached configuration object are independent: no step of any invocation
\* changes the configuration object or a specification object, and under
\* every interleaving each invocation returns what it returns when run alone.
C19_Independent ==
    /\ []ResultsAsAlone
    /\ [][shared' = shared /\ objects' = objects]_vars

C19_Witness ==
    /\ cache = "alt"
    /\ shared = AltConfig
    /\ procs[1].op = "calculate_price"
    /\ procs[2].op = "calculate_price"
    /\ procs[1].arg = procs[2].arg
    /\ procs[1].at = "done"
    /\ procs[2].at = "rush"
    /\ Val(procs[1].result).ok
    /\ Val(procs[1].result).breakdown.quantity_discount < 0
    /\ Val(procs[1].result) = Alone(1)

\* the options the validator's unknown-options warning names
WarnedOptions ==
    UNION { Val(validation).warnings[i].names :
              i \in { j \in DOMAIN Val(validation).warnings :
                        Val(validation).warnings[j].kind = "unknown_options" } }

\* the options for which the estimate carries a 'not in pricing catalog' note
NotedOptions ==
    { E.estimate_notes[i].name :
        i \in { j \in DOMAIN E.estimate_notes :
                  E.estimate_notes[j].kind = "unknown_option" } }

\* C21: an option outside the whitelist gives a validation warning and never a
\* validation error, and under the default configuration the options the
\* warning names are exactly those calculate_price notes as not in the pricing
\* catalog and leaves out of the option costs.
C21_UnknownOptionsAgree ==
    (validation # None /\ specs # None) =>
        /\ WarnedOptions = OptionSet(S) \ VALID_OPTIONS
        /\ \A i \in DOMAIN Val(validation).errors :
               /\ Val(validation).errors[i].kind # "unknown_options"
               /\ Val(validation).errors[i].names \cap WarnedOptions = {}
        /\ (Priced /\ cache = "default") =>
               /\ NotedOptions = WarnedOptions
               /\ DOMAIN E.breakdown.option_costs = OptionSet(S) \ WarnedOptions

C21_Witness ==
    /\ validation # None
    /\ Priced
    /\ cache = "default"
    /\ S.options = <<"glitter", "foil_stamping">>
    /\ S.turnaround_days = Some(1)
    /\ WarnedOptions = {"glitter"}
    /\ NotedOptions = {"glitter"}
    /\ Len(Val(validation).errors) > 0
    /\ DOMAIN E.breakdown.option_costs = {"foil_stamping"}

\* C22: the status of the intake response is "extraction_failed" exactly when
\* the extractor raised, and then the response has no specification, no
\* estimate and an invalid validation result with one error; otherwise the
\* status is "success" exactly when the validation result is valid and
\* "validation_errors" when it is not, also when no specification was extracted.
C22_ResponseStatus ==
    response # None =>
        LET r == Val(response)
        IN  /\ r.status = "extraction_failed" <=> extraction = "raised"
            /\ extraction = "raised" =>
                   /\ r.extracted_specs = None
                   /\ r.estimate = None
                   /\ ~r.validation.is_valid
                   /\ Len(r.validation.errors) = 1
            /\ extraction # "raised" =>
                   /\ r.validation.is_valid = Val(returned).is_valid
                   /\ r.status = "success" <=> r.validation.is_valid
                   /\ r.status = "validation_errors" <=> ~r.validation.is_valid
            /\ extraction = "none" =>
                   r.status = "validation_errors" /\ r.extracted_specs = None

C22_Witness ==
    /\ response # None
    /\ extraction = "none"
    /\ calls = <<"validate_specs">>
    /\ Val(response).status = "validation_errors"
    /\ Val(response).validation.errors = <<Entry("no_specifications", {}, 0)>>
    /\ Val(response).estimate = None

\* the priced specification with sides, color mode and finish left unset
PlainOrder == [S EXCEPT !.sides = None, !.color_mode = None, !.finish = None]

\* C23: sides, color mode and finish change only the print cost and the
\* finishing cost: against the same specification without the three
\* attributes the material cost, the setup cost and every option cost are
\* equal, the print cost and the finishing cost are both scaled by the one
\* combined factor, and a double-sided order does not cost less to print than
\* the same order single-sided.
C23_ModifiersFrame ==
    Priced =>
        LET plain == CalculateOptionCosts(PlainOrder, Cfg, BaseCosts(PlainOrder, Cfg))
            single == BaseCosts([S EXCEPT !.sides = Some("single")], Cfg)
        IN  /\ L.material_cost = plain.material_cost
            /\ L.setup_cost = plain.setup_cost
            /\ L.option_costs = plain.option_costs
            /\ plain.modifier_total = One
            /\ L.print_cost = MulR(plain.print_cost, L.modifier_total)
            /\ L.finishing_cost = MulR(plain.finishing_cost, L.modifier_total)
            /\ S.sides = Some("double") =>
                   /\ LeA(single.print_cost, L.print_cost)
                   /\ L.material_cost = single.material_cost
                   /\ L.setup_cost = single.setup_cost

C23_Witness ==
    /\ Priced
    /\ cache = "default"
    /\ S.sides = Some("double")
    /\ S.color_mode = Some("black_white")
    /\ S.finish = Some("gloss")
    /\ S.quantity = Some(100)
    /\ L.modifier_total = <<22, 25>>
    /\ LtA(L.print_cost, BaseCosts(PlainOrder, Cfg).print_cost)

\* the combined factor of the priced specification without its finish
FactorBeforeFinish == ModifierTotal([S EXCEPT !.finish = None], Cfg)

\* C24 as stated: the finish modifier is the value of the raw key whenever the
\* modifier table has the raw key.
C24_RawKeyFirst ==
    (Priced /\ TruthyStr(S.finish) /\ Val(S.finish) \in DOMAIN Cfg.modifiers) =>
        L.modifier_total = MulRR(FactorBeforeFinish, Cfg.modifiers[Val(S.finish)])

\* C24: the finish modifier for a finish name f is the value of the normalized
\* key f + "_finish" when the table has it, else the value of the raw key f
\* when the table has that, else 1.
C24_NormalizedKeyFirst ==
    (Priced /\ TruthyStr(S.finish)) =>
        LET raw == Val(S.finish)
            normalized == FinishKey(raw)
            modifiers == Cfg.modifiers
            factor == IF normalized \in DOMAIN modifiers THEN modifiers[normalized]
                      ELSE IF raw \in DOMAIN modifiers THEN modifiers[raw]
                      ELSE One
        IN  L.modifier_total = MulRR(FactorBeforeFinish, factor)

C24_Witness ==
    /\ Priced
    /\ cache = "alt"
    /\ S.finish = Some("gloss")
    /\ {"gloss", "gloss_finish"} \subseteq DOMAIN Cfg.modifiers
    /\ Cfg.modifiers["gloss"] # Cfg.modifiers["gloss_finish"]
    /\ FactorBeforeFinish = <<3, 4>>
    /\ L.modifier_total = <<33, 40>>

\* the webhook has been queued for this request
Queued == webhook \in {"queued", "delivered", "failed"}

WebhookOnce ==
    /\ attempts <= 1
    /\ attempts = 1 <=> webhook \in {"delivered", "failed"}
    /\ Queued =>
           /\ pc = "responded"
           /\ extraction \in {"specs", "none"}
           /\ Len(calls) >= 1 /\ calls[1] = "validate_specs"
           /\ response # None /\ Val(response).status # "extraction_failed"
    /\ extraction = "raised" => webhook \in {"unconfigured", "idle"}

\* C25: a request causes at most one webhook delivery attempt, queued only
\* when a URL is configured, only once validation and pricing are over and
\* never after a failed extraction; a failed delivery is not attempted again
\* and no delivery changes the response.
C25_BestEffortOnce ==
    /\ []WebhookOnce
    /\ [][/\ webhook = "unconfigured" => webhook' = "unconfigured"
          /\ webhook \in {"delivered", "failed"} => webhook' = webhook
          /\ response # None => response' = response]_vars

C25_Witness ==
    /\ webhook = "failed"
    /\ attempts = 1
    /\ pc = "responded"
    /\ calls = <<"validate_specs", "calculate_price">>
    /\ Val(response).status = "success"
    /\ Val(response).estimate # None

\* C26 as stated: every specification that calculate_price charges a rush fee
\* and whose options include foil_stamping, embossing or die_cut is reported
\* invalid by validate_specs, the rush flag without turnaround days included.
C26_RushExcludesSlowOptions ==
    (validation # None /\ Priced /\ LtA(Zero, L.rush_fee)
        /\ OptionSet(S) \cap SLOW_OPTIONS # {}) =>
        ~Val(validation).is_valid

\* the items of the breakdown, added up before rounding
BreakdownSum ==
    AddA(AddA(AddA(AddA(AddA(AddA(AddA(L.material_cost, L.print_cost),
                                  L.setup_cost),
                             L.finishing_cost),
                        SumValues(L.option_costs, DOMAIN L.option_costs)),
                   L.quantity_discount),
              L.rush_fee),
         L.margin_amount)

\* C27: before rounding, the subtotal is the sum of material, print, setup and
\* finishing cost, the option costs, the quantity discount, the rush fee and
\* the margin amount whenever the minimum-price floor is not applied, and the
\* estimates whose subtotal differs from that sum all carry the minimum-price
\* note.
C27_BreakdownAccounts ==
    Priced =>
        /\ ~LtA(BreakdownSum, Cents(L.minimum_price)) => L.subtotal = BreakdownSum
        /\ ~HasNote("minimum_price") => L.subtotal = BreakdownSum
        /\ L.subtotal # BreakdownSum =>
               /\ HasNote("minimum_price")
               /\ L.subtotal = Cents(L.minimum_price)
               /\ LtA(BreakdownSum, L.subtotal)

C27_Witness ==
    /\ Priced
    /\ ~HasNote("minimum_price")
    /\ DOMAIN L.option_costs = {"foil_stamping"}
    /\ LtA(L.quantity_discount, Zero)
    /\ LtA(Zero, L.rush_fee)
    /\ LtA(Zero, L.margin_amount)
    /\ L.subtotal = BreakdownSum
    /\ LtA(Cents(L.minimum_price), L.subtotal)

\* C28 as stated: an intake response with status "success" carries an
\* estimate; a pricing failure never leaves a "success" response without one.
C28_SuccessHasEstimate ==
    (response # None /\ Val(response).status = "success") =>
        Val(response).estimate # None

\* quantities on either side of the tier boundaries of the default configuration
TotalProbes == {1, 249, 250, 499, 500, 999, 1000, 4999, 5000, 9999, 10000}

\* the unrounded total of the priced specification at another quantity
TotalAt(q) == PriceLocals([S EXCEPT !.quantity = Some(q)], Cfg).total

\* quantity q is in the discount tier and on the print method of the priced one
SameTierAndMethod(q) ==
    /\ SelectTier(q, Cfg) = L.tier
    /\ determine_print_method(q, Cfg).method = L.method.method

\* C29 as stated: under the default configuration, with everything but the
\* quantity fixed, the total at a larger quantity is never lower, across the
\* discount tier boundaries and the print-method threshold too.
C29_TotalMonotone ==
    (Priced /\ cache = "default") =>
        \A q \in TotalProbes :
            /\ q < L.quantity => LeA(TotalAt(q), L.total)
            /\ q > L.quantity => LeA(L.total, TotalAt(q))

\* C29: under the default configuration, with everything but the quantity
\* fixed, the total at a larger quantity is not lower as long as the two
\* quantities are in the same discount tier and on the same print method.
C29_TotalMonotoneWithinTier ==
    (Priced /\ cache = "default") =>
        \A q \in TotalProbes :
            SameTierAndMethod(q) =>
                /\ q < L.quantity =>
                       /\ LeA(TotalAt(q), L.total)
                       /\ round2(TotalAt(q)) <= E.total
                /\ q > L.quantity =>
                       /\ LeA(L.total, TotalAt(q))
                       /\ E.total <= round2(TotalAt(q))

C29_Witness ==
    /\ Priced
    /\ cache = "default"
    /\ S.quantity = Some(250)
    /\ S.product_type = Some("business_cards")
    /\ SameTierAndMethod(499)
    /\ ~SameTierAndMethod(249)
    /\ LtA(L.total, TotalAt(499))
    /\ LtA(L.total, TotalAt(249))

\* the next-day surcharge on the discounted base of the priced specification
NextDaySurcharge ==
    MulR(AddA(L.pre_discount_total, L.quantity_discount),
         MinusOne(Cfg.rush_pricing["next_day"]))

\* the rush note of the estimate names this class
RushNoteIs(type) ==
    \E i \in DOMAIN E.estimate_notes :
        E.estimate_notes[i].kind = "rush_fee" /\ E.estimate_notes[i].name = type

\* C30 as stated: a specification with the rush flag set and a turnaround of 3
\* days or more, or with a negative turnaround, is not charged the next-day
\* surcharge.
C30_NextDayOnlyForOneDay ==
    (Priced /\ S.turnaround_days # None
        /\ \/ (S.is_rush = Some(TRUE) /\ Val(S.turnaround_days) >= 3)
           \/ Val(S.turnaround_days) < 0) =>
        L.rush_fee # NextDaySurcharge

\* C30: the next-day multiplier is charged to every rush order whose
\* turnaround is neither 0 nor 2 days: a 1-day turnaround, the rush flag with
\* no turnaround, the rush flag with a turnaround of 3 days or more, and a
\* negative turnaround; and to no other order.
C30_NextDayIsTheFallback ==
    Priced =>
        LET t == S.turnaround_days
            charged == S.is_rush = Some(TRUE) \/ (t # None /\ Val(t) <= 2)
        IN  /\ (charged /\ t \notin {Some(0), Some(2)}) =>
                   /\ L.rush_fee = NextDaySurcharge
                   /\ LtA(Zero, L.rush_fee)
                   /\ RushNoteIs(IF t = Some(1) THEN "Next-day" ELSE "Rush")
            /\ (~charged \/ t \in {Some(0), Some(2)}) => L.rush_fee # NextDaySurcharge

C30_Witness ==
    /\ Priced
    /\ S.is_rush = Some(TRUE)
    /\ S.turnaround_days = Some(3)
    /\ L.rush_fee = NextDaySurcharge
    /\ LtA(Zero, L.rush_fee)
    /\ RushNoteIs("Rush")

====
